---- MODULE Spec2Model ----
(***************************************************************************)
(* The per-server message queue of the kernel (kernel/src/server.rs):      *)
(* struct Server with its ring of QueuedMessage slots, the two cursors     *)
(* queue_head / queue_tail and the ready_threads bitset, and the methods   *)
(* queue_message, queue_address, take_next_message, take_waiting_message,  *)
(* discard_messages_for_pid, take_available_thread, park_thread and        *)
(* return_available_thread.                                                *)
(*                                                                         *)
(* Every method is a pure operator from the server value and its arguments *)
(* to the new server value and the returned value; one action per method   *)
(* applies it.  A Rust panic is the returned value "Panic"; the kernel     *)
(* does not run on after a panic.                                          *)
(***************************************************************************)
EXTENDS Integers, Sequences, FiniteSets, TLC

(* Number of slots of the ring: PAGE_SIZE / size_of::<QueuedMessage>() in  *)
(* the source (128 on the 32-bit target), scaled down.                     *)
QueueLen == 3

(* Width of the ready_threads word (usize), scaled down.                   *)
WordBits == 8

Indices == 0 .. (QueueLen - 1)

--------------------------------------------------------------------------
(* Option<NonZero>: None is the empty tuple, Some(x) the one-tuple.        *)
None == << >>

Some(x) == << x >>

(* Option::map(|x| x.get()).unwrap_or(0)                                   *)
unwrap_or_0(o) == IF o = None THEN 0 ELSE o[1]

(* MemoryAddress::new / MemorySize::new: NonZeroUsize::new                 *)
NonZero_new(x) == IF x = 0 THEN None ELSE Some(x)

(* `as u16`                                                                *)
as_u16(x) == x % 65536

--------------------------------------------------------------------------
(* xous::Message values handed to the queue.  A memory message carries     *)
(* buf = <<addr, size>>, offset and valid (Option<MemorySize>); a scalar   *)
(* carries four arguments.                                                 *)
ScalarMsg(id, a1, a2, a3, a4) ==
    [kind |-> "Scalar", id |-> id, args |-> <<a1, a2, a3, a4>>,
     buf |-> << >>, offset |-> None, valid |-> None]

MemoryMsg(kind, id, addr, size, offset, valid) ==
    [kind |-> kind, id |-> id, args |-> << >>,
     buf |-> <<addr, size>>, offset |-> offset, valid |-> valid]

Pids == {2, 3}

(* The calls of queue_message that are tried: the sending pid and thread,  *)
(* the message and the original (client) address.  The two processes send  *)
(* a message of each kind between them.                                    *)
Call(pid, tid, msg, orig) == [pid |-> pid, tid |-> tid, msg |-> msg, orig |-> orig]

Calls ==
    { Call(2, 1, ScalarMsg(42, 1, 2, 3, 4), None),
      Call(3, 1, MemoryMsg("Move", 7, 4096, 8192, None, Some(16)), None),
      Call(2, 1, MemoryMsg("Borrow", 9, 4096, 8192, None, Some(16)), Some(20480)),
      Call(3, 1, MemoryMsg("MutableBorrow", 11, 4096, 8192, Some(32), None), Some(24576)) }

(* The calls of queue_address that are tried: a scalar, a move, a lend     *)
(* with its client address, and a lend without a client address.           *)
AddressCalls ==
    { Call(2, 1, ScalarMsg(42, 1, 2, 3, 4), None),
      Call(3, 1, MemoryMsg("Move", 7, 4096, 8192, None, Some(16)), None),
      Call(3, 1, MemoryMsg("Borrow", 9, 4096, 8192, None, Some(16)), Some(28672)),
      Call(3, 1, MemoryMsg("MutableBorrow", 11, 4096, 8192, Some(32), None), None) }

ServerIdxs == {5}

(* Server indices the sender token is computed for: they fit the 16 bits   *)
(* of the token above the slot index.                                      *)
TokenServerIdxs == {0, 1, 5, 255, 32767}

(* Buffers a server may pass to take_waiting_message: a MemoryRange has a  *)
(* non-zero address and a non-zero size.                                   *)
Buffers == { <<4096, 8192>>, <<4096, 4096>>, <<8192, 8192>> }

IsBorrowKind(k) == k \in {"Borrow", "MutableBorrow"}

--------------------------------------------------------------------------
(* enum QueuedMessage: the tag followed by the fields in declared order.   *)
Empty == << "Empty" >>

Tag(e) == e[1]

LendTags == {"MemoryMessageROLend", "MemoryMessageRWLend"}

TerminatedTags == {"MemoryMessageROLendTerminated", "MemoryMessageRWLendTerminated"}

WaitingTags == {"WaitingResponse", "WaitingForget"}

(* struct Server (sid and pid are immutable and play no part).             *)
Server(q, h, t, r) ==
    [queue |-> q, queue_head |-> h, queue_tail |-> t, ready_threads |-> r]

(* Server::init                                                            *)
init == Server([i \in Indices |-> Empty], 0, 0, 0)

(* advance with the wrap tested by > in place of >=.                       *)
advance_wraps_late(cursor) == IF cursor + 1 > QueueLen THEN 0 ELSE cursor + 1

(* cursor += 1; if cursor >= self.queue.len() { cursor = 0 }               *)
advance(cursor) == IF cursor + 1 >= QueueLen THEN 0 ELSE cursor + 1

(* usize bit operations on naturals.                                       *)
RECURSIVE BitOr(_, _)
BitOr(a, b) ==
    IF a = 0 THEN b
    ELSE IF b = 0 THEN a
    ELSE (IF (a % 2) + (b % 2) > 0 THEN 1 ELSE 0) + 2 * BitOr(a \div 2, b \div 2)

(* x << 16 on usize.  The operand is a u16 pid or a server index, so the   *)
(* shift loses no bit of it on a 32-bit word.                              *)
shl16(x) == x * 65536

(* from_usize with the two halves of the token in each other's place.      *)
from_usize_swaps_halves(src) == [sidx |-> src % 65536, tidx |-> src \div 65536]

(* SenderID::from_usize: sidx: src >> 16, tidx: src & 0xffff               *)
from_usize(src) == [sidx |-> src \div 65536, tidx |-> src % 65536]

(* make_sender without the shift of the pid.                               *)
make_sender_unshifted(pid, ctx) == BitOr(as_u16(pid), as_u16(ctx))

(* fn make_sender(pid, ctx): the mask 0xffff_0000 keeps all of a shifted   *)
(* u16 and (ctx & 0xffff) all of a u16 ctx.                                *)
make_sender(pid, ctx) == BitOr(shl16(as_u16(pid)), as_u16(ctx))

NoMessage ==
    [kind |-> "", id |-> 0, args |-> << >>, buf |-> << >>, offset |-> None, valid |-> None]

(* The value a method returns: the method, the variant returned, the       *)
(* numbers the variant carries and, for a MessageEnvelope, its message.    *)
Ret(op, tag, val, msg) == [op |-> op, tag |-> tag, val |-> val, msg |-> msg]

Out(s, r) == [srv |-> s, ret |-> r]

--------------------------------------------------------------------------
(* Server::queue_message: the QueuedMessage written for `message`.         *)
queued_entry(pid, context, message, original_address) ==
    LET p == as_u16(pid)
        c == as_u16(context)
        o == unwrap_or_0(original_address)
        m == message
    IN  CASE m.kind = "Scalar" ->
               <<"ScalarMessage", p, c, o, m.id,
                 m.args[1], m.args[2], m.args[3], m.args[4]>>
          [] m.kind = "Move" ->
               <<"MemoryMessageSend", p, c, o, m.id, m.buf[1], m.buf[2],
                 unwrap_or_0(m.offset), unwrap_or_0(m.valid)>>
          [] m.kind = "MutableBorrow" ->
               <<"MemoryMessageRWLend", p, c, o, m.id, m.buf[1], m.buf[2],
                 unwrap_or_0(m.offset), unwrap_or_0(m.valid)>>
          [] m.kind = "Borrow" ->
               <<"MemoryMessageROLend", p, c, o, m.id, m.buf[1], m.buf[2],
                 unwrap_or_0(m.offset), unwrap_or_0(m.valid)>>

(* queue_message with the full test made on the tail slot.                 *)
queue_message_tests_tail(s, pid, context, message, original_address) ==
    IF Tag(s.queue[s.queue_tail]) # "Empty"
    THEN Out(s, Ret("queue_message", "ServerQueueFull", << >>, NoMessage))
    ELSE LET idx == s.queue_head
         IN  Out([s EXCEPT
                    !.queue[idx] = queued_entry(pid, context, message, original_address),
                    !.queue_head = advance(idx)],
                 Ret("queue_message", "Ok", <<idx>>, NoMessage))

(* Server::queue_message                                                   *)
queue_message(s, pid, context, message, original_address) ==
    IF Tag(s.queue[s.queue_head]) # "Empty"
    THEN Out(s, Ret("queue_message", "ServerQueueFull", << >>, NoMessage))
    ELSE LET idx == s.queue_head
         IN  Out([s EXCEPT
                    !.queue[idx] = queued_entry(pid, context, message, original_address),
                    !.queue_head = advance(idx)],
                 Ret("queue_message", "Ok", <<idx>>, NoMessage))

(* address_of that records the buffer of a Move as it does for a lend.     *)
address_of_keeps_move(message) ==
    IF message.kind = "Scalar"
    THEN <<0, 0>>
    ELSE <<message.buf[1], message.buf[2]>>

(* Server::queue_address: the (server_address, len) recorded for `message` *)
address_of(message) ==
    IF message.kind \in {"Scalar", "Move"}
    THEN <<0, 0>>
    ELSE <<message.buf[1], message.buf[2]>>

(* Server::queue_address                                                   *)
queue_address(s, pid, context, message, client_address) ==
    IF Tag(s.queue[s.queue_head]) # "Empty"
    THEN Out(s, Ret("queue_address", "ServerQueueFull", << >>, NoMessage))
    ELSE LET idx == s.queue_head
             al  == address_of(message)
         IN  Out([s EXCEPT
                    !.queue[idx] = <<"WaitingResponse", as_u16(pid), as_u16(context),
                                     al[1], unwrap_or_0(client_address), al[2]>>,
                    !.queue_head = advance(idx)],
                 Ret("queue_address", "Ok", <<idx>>, NoMessage))

(* discard_entry without the arm of MemoryMessageRWLend.                   *)
discard_entry_skips_rw(entry, pid) ==
    CASE Tag(entry) = "MemoryMessageROLend" ->
           IF entry[2] = as_u16(pid)
           THEN [entry EXCEPT ![1] = "MemoryMessageROLendTerminated"]
           ELSE entry
      [] OTHER -> entry

(* discard_entry without the comparison of the pid.                        *)
discard_entry_any_pid(entry, pid) ==
    CASE Tag(entry) = "MemoryMessageROLend" ->
           [entry EXCEPT ![1] = "MemoryMessageROLendTerminated"]
      [] Tag(entry) = "MemoryMessageRWLend" ->
           [entry EXCEPT ![1] = "MemoryMessageRWLendTerminated"]
      [] OTHER -> entry

(* Server::discard_messages_for_pid: what becomes of one entry.            *)
discard_entry(entry, pid) ==
    CASE Tag(entry) = "MemoryMessageROLend" ->
           IF entry[2] = as_u16(pid)
           THEN [entry EXCEPT ![1] = "MemoryMessageROLendTerminated"]
           ELSE entry
      [] Tag(entry) = "MemoryMessageRWLend" ->
           IF entry[2] = as_u16(pid)
           THEN [entry EXCEPT ![1] = "MemoryMessageRWLendTerminated"]
           ELSE entry
      [] OTHER -> entry

(* Server::discard_messages_for_pid                                        *)
discard_messages_for_pid(s, pid) ==
    Out([s EXCEPT !.queue = [i \in Indices |-> discard_entry(s.queue[i], pid)]],
        Ret("discard_messages_for_pid", "Unit", << >>, NoMessage))

--------------------------------------------------------------------------
(* Server::take_next_message: the xous::MemoryMessage rebuilt from a slot. *)
memory_message(kind, entry) ==
    [kind |-> kind, id |-> entry[5], args |-> << >>,
     buf |-> <<entry[6], entry[7]>>,
     offset |-> NonZero_new(entry[8]), valid |-> NonZero_new(entry[9])]

(* Server::take_next_message: the xous::ScalarMessage rebuilt from a slot. *)
scalar_message(entry) ==
    [kind |-> "Scalar", id |-> entry[5],
     args |-> <<entry[6], entry[7], entry[8], entry[9]>>,
     buf |-> << >>, offset |-> None, valid |-> None]

(* waiting_entry that leaves the lend in the slot.                         *)
waiting_entry_keeps_lend(entry, forget) == entry

(* waiting_entry with the pid and the ctx in each other's place.           *)
waiting_entry_swaps_ids(entry, forget) ==
    << (IF forget THEN "WaitingForget" ELSE "WaitingResponse"),
       entry[3], entry[2], entry[6], entry[4], entry[7] >>

(* Server::take_next_message: the slot a delivered lend is replaced with:  *)
(* (pid, ctx, buf, client_addr, buf_size), WaitingForget when `forget`.    *)
waiting_entry(entry, forget) ==
    << (IF forget THEN "WaitingForget" ELSE "WaitingResponse"),
       entry[2], entry[3], entry[6], entry[4], entry[7] >>

(* take_lend that advances the tail as the arm of a Move does.             *)
take_lend_advances(s, server_idx, kind, forget) ==
    LET tail  == s.queue_tail
        entry == s.queue[tail]
    IN  Out([s EXCEPT !.queue[tail] = waiting_entry(entry, forget),
                      !.queue_tail = advance(tail)],
            Ret("take_next_message", "Some",
                <<BitOr(tail, shl16(server_idx))>>, memory_message(kind, entry)))

(* Server::take_next_message: the arm of a lend (terminated or not).       *)
take_lend(s, server_idx, kind, forget) ==
    LET tail  == s.queue_tail
        entry == s.queue[tail]
    IN  Out([s EXCEPT !.queue[tail] = waiting_entry(entry, forget)],
            Ret("take_next_message", "Some",
                <<BitOr(tail, shl16(server_idx))>>, memory_message(kind, entry)))

(* Server::take_next_message: the arm of a Move or a Scalar.               *)
take_free(s, message) ==
    LET tail  == s.queue_tail
        entry == s.queue[tail]
    IN  Out([s EXCEPT !.queue[tail] = Empty, !.queue_tail = advance(tail)],
            Ret("take_next_message", "Some",
                <<make_sender(entry[2], entry[3])>>, message))

(* nothing_to_take that steps over the slot at the tail.                   *)
nothing_to_take_skips(s) ==
    Out([s EXCEPT !.queue_tail = advance(s.queue_tail)],
        Ret("take_next_message", "None", << >>, NoMessage))

(* Server::take_next_message: the arms that return None.                   *)
nothing_to_take(s) == Out(s, Ret("take_next_message", "None", << >>, NoMessage))

(* Server::take_next_message                                               *)
take_next_message(s, server_idx) ==
    LET entry == s.queue[s.queue_tail]
        t     == Tag(entry)
    IN  CASE t = "Empty" -> nothing_to_take(s)
          [] t = "WaitingResponse" -> nothing_to_take(s)
          [] t = "WaitingForget" -> nothing_to_take(s)
          [] t = "MemoryMessageROLend" -> take_lend(s, server_idx, "Borrow", FALSE)
          [] t = "MemoryMessageRWLend" -> take_lend(s, server_idx, "MutableBorrow", FALSE)
          [] t = "MemoryMessageROLendTerminated" ->
               take_lend(s, server_idx, "Borrow", TRUE)
          [] t = "MemoryMessageRWLendTerminated" ->
               take_lend(s, server_idx, "MutableBorrow", TRUE)
          [] t = "MemoryMessageSend" -> take_free(s, memory_message("Move", entry))
          [] t = "ScalarMessage" -> take_free(s, scalar_message(entry))

--------------------------------------------------------------------------
(* Server::take_waiting_message: the bounds test on idx.                   *)
idx_rejected(idx) == idx > QueueLen

(* waiting_result with the client address returned as the server address  *)
(* and the server address as the client address.                           *)
waiting_result_swaps_addresses(entry) ==
    LET op == "take_waiting_message"
    IN  IF Tag(entry) = "WaitingForget"
        THEN Ret(op, "ForgetMemory", <<entry[4], entry[6]>>, NoMessage)
        ELSE IF NonZero_new(entry[4]) = None
             THEN Ret(op, "MovedMemory", << >>, NoMessage)
        ELSE IF NonZero_new(entry[5]) = None \/ NonZero_new(entry[6]) = None
                \/ NonZero_new(entry[2]) = None
             THEN Ret(op, "Panic", << >>, NoMessage)
        ELSE Ret(op, "BorrowedMemory",
                 <<entry[2], entry[3], entry[5], entry[4], entry[6]>>, NoMessage)

(* Server::take_waiting_message: the value returned once the slot has been *)
(* emptied; the expect() and unwrap() calls panic on a zero.               *)
waiting_result(entry) ==
    LET pid         == entry[2]
        ctx         == entry[3]
        server_addr == entry[4]
        client_addr == entry[5]
        len         == entry[6]
        forget      == (Tag(entry) = "WaitingForget")
        op          == "take_waiting_message"
    IN  IF forget THEN Ret(op, "ForgetMemory", <<server_addr, len>>, NoMessage)
        ELSE IF NonZero_new(server_addr) = None
             THEN Ret(op, "MovedMemory", << >>, NoMessage)
        ELSE IF NonZero_new(client_addr) = None \/ NonZero_new(len) = None
                \/ NonZero_new(pid) = None
             THEN Ret(op, "Panic", << >>, NoMessage)
        ELSE Ret(op, "BorrowedMemory", <<pid, ctx, server_addr, client_addr, len>>,
                 NoMessage)

(* buffer_differs without the comparison of the lengths.                   *)
buffer_differs_ignores_len(entry, buf) == entry[4] # buf[1]

(* Server::take_waiting_message: the test of the buffer against the slot;  *)
(* buf is <<buf.as_ptr(), buf.len()>>.                                     *)
buffer_differs(entry, buf) == entry[4] # buf[1] \/ entry[6] # buf[2]

(* not_waiting returning the error of a bad index.                         *)
not_waiting_is_error(s) ==
    Out(s, Ret("take_waiting_message", "BadAddress", << >>, NoMessage))

(* Server::take_waiting_message: the arm of a slot that awaits no reply.   *)
not_waiting(s) ==
    Out(s, Ret("take_waiting_message", "WaitingNone", << >>, NoMessage))

(* Server::take_waiting_message; buf is <<buf.as_ptr(), buf.len()>>.       *)
take_waiting_message(s, idx, buf) ==
    LET op == "take_waiting_message"
    IN  IF idx_rejected(idx)
        THEN Out(s, Ret(op, "BadAddress", << >>, NoMessage))
        ELSE IF idx \notin DOMAIN s.queue
        THEN Out(s, Ret(op, "Panic", << >>, NoMessage))
        ELSE LET entry == s.queue[idx]
             IN  IF Tag(entry) \notin {"WaitingResponse", "WaitingForget"}
                 THEN not_waiting(s)
                 ELSE IF buffer_differs(entry, buf)
                 THEN Out(s, Ret(op, "BadAddress", << >>, NoMessage))
                 ELSE Out([s EXCEPT !.queue[idx] = Empty,
                                    !.queue_tail = advance(s.queue_tail)],
                          waiting_result(entry))

--------------------------------------------------------------------------
(* rotate_left_1 rotating by two bits.                                     *)
rotate_left_by_2(x) == ((4 * x) % (2 ^ WordBits)) + ((4 * x) \div (2 ^ WordBits))

(* usize::rotate_left(1) on a word of WordBits bits.                       *)
rotate_left_1(x) == ((2 * x) % (2 ^ WordBits)) + ((2 * x) \div (2 ^ WordBits))

(* x & mask == mask, for a mask of one bit                                 *)
has_bit(x, mask) == (x \div mask) % 2 = 1

(* 1 << tid                                                                *)
bit(tid) == 2 ^ tid

(* Server::take_available_thread: the loop, from test_thread_mask and      *)
(* thread_number on.                                                       *)
RECURSIVE scan_threads(_, _, _)
scan_threads(s, test_thread_mask, thread_number) ==
    IF has_bit(s.ready_threads, test_thread_mask)
    THEN Out([s EXCEPT !.ready_threads = s.ready_threads - test_thread_mask],
             Ret("take_available_thread", "Some", <<thread_number>>, NoMessage))
    ELSE IF rotate_left_1(test_thread_mask) = 1
         THEN Out(s, Ret("take_available_thread", "Panic", << >>, NoMessage))
         ELSE scan_threads(s, rotate_left_1(test_thread_mask), thread_number + 1)

(* take_available_thread with the scan started at thread 1.                *)
take_available_thread_from_1(s) ==
    IF s.ready_threads = 0
    THEN Out(s, Ret("take_available_thread", "None", << >>, NoMessage))
    ELSE scan_threads(s, 2, 1)

(* Server::take_available_thread                                           *)
take_available_thread(s) ==
    IF s.ready_threads = 0
    THEN Out(s, Ret("take_available_thread", "None", << >>, NoMessage))
    ELSE scan_threads(s, 1, 0)

(* Server::return_available_thread                                         *)
return_available_thread(s, tid) ==
    IF has_bit(s.ready_threads, bit(tid))
    THEN Out(s, Ret("return_available_thread", "Panic", << >>, NoMessage))
    ELSE Out([s EXCEPT !.ready_threads = s.ready_threads + bit(tid)],
             Ret("return_available_thread", "Unit", << >>, NoMessage))

(* park_thread without its assertion.                                      *)
park_thread_unchecked(s, tid) ==
    Out(IF has_bit(s.ready_threads, bit(tid)) THEN s
        ELSE [s EXCEPT !.ready_threads = s.ready_threads + bit(tid)],
        Ret("park_thread", "Unit", << >>, NoMessage))

(* Server::park_thread                                                     *)
park_thread(s, tid) ==
    IF ~(~has_bit(s.ready_threads, bit(tid)))
    THEN Out(s, Ret("park_thread", "Panic", << >>, NoMessage))
    ELSE Out([s EXCEPT !.ready_threads = s.ready_threads + bit(tid)],
             Ret("park_thread", "Unit", << >>, NoMessage))

--------------------------------------------------------------------------
(* The state: the fields of the Server, the value the last call returned,  *)
(* and the history of the calls, which the code does not keep: sent (the   *)
(* admitting call of each slot in use), order (the slots in use, oldest    *)
(* admission first), fresh (only admissions have run since init) and acted *)
(* (the history of the slot the last call delivered or resolved, kept      *)
(* while take_waiting_message is called again with the same idx) and       *)
(* arg_idx (the idx the last call was given, NoIdx when it takes none).    *)
VARIABLES queue, queue_head, queue_tail, ready_threads, ret, sent, order, fresh, acted,
          arg_idx

vars == <<queue, queue_head, queue_tail, ready_threads, ret, sent, order, fresh, acted,
          arg_idx>>

NoIdx == -1

srv == Server(queue, queue_head, queue_tail, ready_threads)

(* History of the message admitted last at a slot, kept while the slot is  *)
(* not Empty: the arguments of the admitting call, whether                 *)
(* take_next_message has delivered it, and whether                         *)
(* discard_messages_for_pid ran for its pid while it was still to deliver. *)
NoSent ==
    [pid |-> 0, tid |-> 0, msg |-> NoMessage, orig |-> None,
     delivered |-> FALSE, diedBefore |-> FALSE]

NewSent(pid, tid, msg, orig) ==
    [pid |-> pid, tid |-> tid, msg |-> msg, orig |-> orig,
     delivered |-> FALSE, diedBefore |-> FALSE]

Live(q, g) == [i \in Indices |-> IF Tag(q[i]) = "Empty" THEN NoSent ELSE g[i]]

Without(ord, idx) == SelectSeq(ord, LAMBDA i : i # idx)

Keep(q, ord) == SelectSeq(ord, LAMBDA i : Tag(q[i]) # "Empty")

Halted == ret.tag = "Panic"

Commit(o) ==
    /\ queue' = o.srv.queue
    /\ queue_head' = o.srv.queue_head
    /\ queue_tail' = o.srv.queue_tail
    /\ ready_threads' = o.srv.ready_threads
    /\ ret' = o.ret

Admitted(o, pid, tid, msg, orig) ==
    IF o.ret.tag = "Ok"
    THEN LET idx == o.ret.val[1]
         IN  /\ sent' = Live(o.srv.queue,
                             [sent EXCEPT ![idx] = NewSent(pid, tid, msg, orig)])
             /\ order' = Keep(o.srv.queue, Append(Without(order, idx), idx))
    ELSE /\ sent' = Live(o.srv.queue, sent)
         /\ order' = Keep(o.srv.queue, order)

Init ==
    /\ queue = init.queue
    /\ queue_head = init.queue_head
    /\ queue_tail = init.queue_tail
    /\ ready_threads = init.ready_threads
    /\ ret = Ret("init", "Ok", << >>, NoMessage)
    /\ sent = [i \in Indices |-> NoSent]
    /\ order = << >>
    /\ fresh = TRUE
    /\ acted = NoSent
    /\ arg_idx = NoIdx

QueueMessage(pid, tid, msg, orig) ==
    /\ ~Halted
    /\ LET o == queue_message(srv, pid, tid, msg, orig)
       IN  Commit(o) /\ Admitted(o, pid, tid, msg, orig)
    /\ acted' = NoSent
    /\ arg_idx' = NoIdx
    /\ UNCHANGED fresh

QueueAddress(pid, tid, msg, client) ==
    /\ ~Halted
    /\ LET o == queue_address(srv, pid, tid, msg, client)
       IN  Commit(o) /\ Admitted(o, pid, tid, msg, client)
    /\ acted' = NoSent
    /\ arg_idx' = NoIdx
    /\ UNCHANGED fresh

TakeNextMessage(server_idx) ==
    /\ ~Halted
    /\ LET o == take_next_message(srv, server_idx)
       IN  /\ Commit(o)
           /\ sent' = Live(o.srv.queue,
                           IF o.ret.tag = "Some"
                           THEN [sent EXCEPT ![queue_tail].delivered = TRUE]
                           ELSE sent)
           /\ order' = Keep(o.srv.queue, order)
           /\ acted' = IF o.ret.tag = "Some" THEN sent[queue_tail] ELSE NoSent
    /\ arg_idx' = NoIdx
    /\ fresh' = FALSE

TakeWaitingMessage(idx, buf) ==
    /\ ~Halted
    /\ LET o == take_waiting_message(srv, idx, buf)
       IN  /\ Commit(o)
           /\ sent' = Live(o.srv.queue, sent)
           /\ order' = Keep(o.srv.queue, order)
           /\ acted' = IF o.srv.queue # queue THEN sent[idx]
                       ELSE IF idx = arg_idx THEN acted
                       ELSE NoSent
    /\ arg_idx' = idx
    /\ fresh' = FALSE

DiscardMessagesForPid(pid) ==
    /\ ~Halted
    /\ LET o == discard_messages_for_pid(srv, pid)
       IN  /\ Commit(o)
           /\ sent' = Live(o.srv.queue,
                  [i \in Indices |->
                     IF sent[i].pid = pid /\ Tag(queue[i]) \notin WaitingTags
                     THEN [sent[i] EXCEPT !.diedBefore = TRUE]
                     ELSE sent[i]])
           /\ order' = Keep(o.srv.queue, order)
    /\ acted' = NoSent
    /\ arg_idx' = NoIdx
    /\ fresh' = FALSE

(* The thread methods touch ready_threads alone.                           *)
ThreadStep(o) ==
    /\ ~Halted
    /\ Commit(o)
    /\ arg_idx' = NoIdx
    /\ UNCHANGED <<sent, order, fresh, acted>>

TakeAvailableThread == ThreadStep(take_available_thread(srv))

ReturnAvailableThread(tid) == ThreadStep(return_available_thread(srv, tid))

ParkThread(tid) == ThreadStep(park_thread(srv, tid))

(* Thread IDs that fit the ready_threads word.                             *)
ThreadIds == 0 .. (WordBits - 1)

Next ==
    \/ \E c \in Calls : QueueMessage(c.pid, c.tid, c.msg, c.orig)
    \/ \E c \in AddressCalls : QueueAddress(c.pid, c.tid, c.msg, c.orig)
    \/ \E server_idx \in ServerIdxs : TakeNextMessage(server_idx)
    \/ \E idx \in 0 .. (QueueLen + 1), buf \in Buffers : TakeWaitingMessage(idx, buf)
    \/ \E pid \in Pids : DiscardMessagesForPid(pid)

Spec == Init /\ [][Next]_vars

(* The ready-thread set on its own: no queue method reads or writes        *)
(* ready_threads and no thread method reads or writes the ring.            *)
ThreadNext ==
    \/ TakeAvailableThread
    \/ \E tid \in ThreadIds : ReturnAvailableThread(tid)
    \/ \E tid \in ThreadIds : ParkThread(tid)

ThreadSpec == Init /\ [][ThreadNext]_vars

--------------------------------------------------------------------------
(* Vocabulary of the properties.                                           *)

(* Slot i holds a message queue_message admitted that take_next_message    *)
(* has not delivered yet.                                                  *)
Pending(i) == Tag(queue[i]) \notin ({"Empty"} \cup WaitingTags)

(* Slot i awaits a reply (AwaitingReply or AwaitingForget).                *)
Awaiting(i) == Tag(queue[i]) \in WaitingTags

(* Slot i awaits the reply to a lend that take_next_message delivered.     *)
DeliveredLend(i) == Awaiting(i) /\ sent[i].delivered

(* The buffer recorded in an awaiting slot: (server address, length).      *)
SlotBuf(e) == <<e[4], e[6]>>

(* The value complete_reply is specified to return.                        *)
Forget(addr, len) == Ret("take_waiting_message", "ForgetMemory", <<addr, len>>, NoMessage)

Borrowed(pid, tid, server, client, len) ==
    Ret("take_waiting_message", "BorrowedMemory", <<pid, tid, server, client, len>>,
        NoMessage)

(* One step of a cursor modulo the capacity.                               *)
Step(cursor) == (cursor + 1) % QueueLen

(* The slot before a cursor modulo the capacity.                           *)
Back(cursor) == (cursor + QueueLen - 1) % QueueLen

--------------------------------------------------------------------------
(* C1: a message whose sender pid was passed to discard_messages_for_pid   *)
(* after its admission by queue_message and before its delivery is still   *)
(* delivered by take_next_message when it is at the tail, with the message *)
(* it was admitted with; if it is a lend, take_waiting_message on its slot *)
(* with the buffer it carried then returns ForgetMemory(server_addr, len), *)
(* never BorrowedMemory; if it is a Scalar or a Move it is delivered as    *)
(* usual: sender (pid << 16) | tid, slot Empty, tail one further.          *)
C1_DiscardedLendIsForgotten ==
    \A i \in Indices :
      sent[i].diedBefore =>
        /\ (Pending(i) /\ i = queue_tail) =>
              \A server_idx \in ServerIdxs :
                LET o == take_next_message(srv, server_idx)
                IN  /\ o.ret.tag = "Some"
                    /\ o.ret.msg = sent[i].msg
                    /\ ~IsBorrowKind(sent[i].msg.kind) =>
                          /\ o.ret.val = <<sent[i].pid * 65536 + sent[i].tid>>
                          /\ o.srv.queue[i] = Empty
                          /\ o.srv.queue_tail = Step(i)
        /\ DeliveredLend(i) =>
              take_waiting_message(srv, i, sent[i].msg.buf).ret
                = Forget(sent[i].msg.buf[1], sent[i].msg.buf[2])

(* The reply to a lend that was discarded before its delivery has returned *)
(* ForgetMemory.                                                           *)
C1_Witness ==
    /\ ret = Forget(4096, 8192)
    /\ acted.delivered /\ acted.diedBefore
    /\ IsBorrowKind(acted.msg.kind)

(* C2: discard_messages_for_pid(pid) rewrites every WaitingResponse slot   *)
(* of that pid to WaitingForget with the same pid, tid, addresses and      *)
(* length; stated for the slots of delivered lends, the case of a lender   *)
(* that dies between the delivery and the reply.                           *)
C2_DiscardRewritesAwaitingReply ==
    [][ \A pid \in Pids :
          DiscardMessagesForPid(pid) =>
            \A i \in Indices :
              (DeliveredLend(i) /\ Tag(queue[i]) = "WaitingResponse"
                 /\ queue[i][2] = pid) =>
                queue'[i] = [queue[i] EXCEPT ![1] = "WaitingForget"] ]_vars

(* The oldest admission among the slots still to deliver.                  *)
OldestPending ==
    LET ks == { k \in 1 .. Len(order) : Pending(order[k]) }
    IN  order[CHOOSE k \in ks : \A j \in ks : k <= j]

(* C3: take_next_message delivers in the order of admission: the message   *)
(* it delivers is the oldest queue_message admission not yet delivered.    *)
C3_DeliveryIsFifo ==
    [][ \A server_idx \in ServerIdxs :
          (TakeNextMessage(server_idx) /\ ret'.tag = "Some") =>
            queue_tail = OldestPending ]_vars

(* No call can deliver a message or move a cursor any more: the tail slot  *)
(* is Empty, so take_next_message returns None; no slot awaits a reply, so *)
(* take_waiting_message changes nothing; the head slot is in use, so every *)
(* admission fails with ServerQueueFull. Only discard_messages_for_pid     *)
(* still rewrites a pending lend in place, which delivers nothing.         *)
RingDead ==
    /\ Tag(queue[queue_tail]) = "Empty"
    /\ \A i \in Indices : ~Awaiting(i)
    /\ Tag(queue[queue_head]) # "Empty"

(* C4: every message admitted by queue_message is delivered in the end if  *)
(* the server keeps taking and replying: no admitted message is left       *)
(* undelivered in a ring that no call can change any more.                 *)
C4_NoMessageLeftBehind ==
    ~(RingDead /\ \E i \in Indices : Pending(i))

(* C5: while the slot of a delivered lend awaits its reply, the tail does  *)
(* not move and take_next_message delivers nothing.                        *)
C5_HeadOfLineBlocking ==
    [][ (\E i \in Indices : DeliveredLend(i) /\ Awaiting(i)') =>
          /\ queue_tail' = queue_tail
          /\ ~(ret'.op = "take_next_message" /\ ret'.tag = "Some") ]_vars

(* What an admission (queue_message or queue_address) is specified to do   *)
(* in the current state, o being its outcome.                              *)
AdmissionRule(o) ==
    /\ o.ret.tag \in {"Ok", "ServerQueueFull"}
    /\ (o.ret.tag = "ServerQueueFull") <=> (Tag(queue[queue_head]) # "Empty")
    /\ o.ret.tag = "ServerQueueFull" => o.srv = srv
    /\ fresh =>
          /\ (o.ret.tag = "Ok") <=> (Len(order) < QueueLen)
          /\ o.ret.tag = "Ok" => o.ret.val = <<Len(order)>>

(* C6: an admission fails with ServerQueueFull exactly when the head slot  *)
(* is not Empty, and then changes no slot, cursor or ready thread; on a    *)
(* queue that has seen only admissions since init, the k-th admission      *)
(* (k = 1 .. QueueLen) succeeds and returns k - 1 and the next one fails.  *)
C6_AdmissionUntilFull ==
    /\ \A c \in Calls : AdmissionRule(queue_message(srv, c.pid, c.tid, c.msg, c.orig))
    /\ \A c \in AddressCalls :
          AdmissionRule(queue_address(srv, c.pid, c.tid, c.msg, c.orig))

(* The admission after QueueLen admissions on a new queue has failed.      *)
C6_Witness ==
    /\ fresh
    /\ Len(order) = QueueLen
    /\ ret.tag = "ServerQueueFull"

(* Slot i holds a state of the message recorded in sent[i]: its pid and    *)
(* tid, and a variant that message can be in.                              *)
HoldsSent(i) ==
    LET e == queue[i]
        g == sent[i]
        t == Tag(e)
    IN  /\ e[2] = g.pid
        /\ e[3] = g.tid
        /\ CASE t = "ScalarMessage" -> g.msg.kind = "Scalar" /\ ~g.delivered
             [] t = "MemoryMessageSend" -> g.msg.kind = "Move" /\ ~g.delivered
             [] t \in {"MemoryMessageROLend", "MemoryMessageROLendTerminated"} ->
                  g.msg.kind = "Borrow" /\ ~g.delivered
             [] t \in {"MemoryMessageRWLend", "MemoryMessageRWLendTerminated"} ->
                  g.msg.kind = "MutableBorrow" /\ ~g.delivered
             [] t = "WaitingResponse" ->
                  g.delivered => IsBorrowKind(g.msg.kind)
             [] t = "WaitingForget" ->
                  g.delivered /\ IsBorrowKind(g.msg.kind)

(* An admission with outcome o leaves every slot in use as it is.          *)
KeepsLiveSlots(o) ==
    \A i \in Indices : Tag(queue[i]) # "Empty" => o.srv.queue[i] = queue[i]

(* C7: the index an admission returned names the message until its slot    *)
(* becomes Empty: no admission writes a slot in use, and a slot in use     *)
(* holds a Pending, Terminated, AwaitingReply or AwaitingForget state of   *)
(* the message admitted there, with the pid and tid it was admitted with.  *)
C7_IndexIsStable ==
    /\ \A i \in Indices : Tag(queue[i]) # "Empty" => HoldsSent(i)
    /\ \A c \in Calls :
          KeepsLiveSlots(queue_message(srv, c.pid, c.tid, c.msg, c.orig))
    /\ \A c \in AddressCalls :
          KeepsLiveSlots(queue_address(srv, c.pid, c.tid, c.msg, c.orig))

(* A message admitted at a slot was discarded and delivered and still      *)
(* awaits its reply there, after a later admission at another slot.        *)
C7_Witness ==
    \E i \in Indices :
      /\ Tag(queue[i]) = "WaitingForget"
      /\ ret.op = "queue_message" /\ ret.tag = "Ok" /\ ret.val # <<i>>

(* C8: a lend admitted by queue_message with a client address and          *)
(* delivered by take_next_message (no discard for its pid in between) is   *)
(* resolved by take_waiting_message on its index with the buffer it        *)
(* carried as BorrowedMemory(pid, tid, server_addr, client_addr, len) with *)
(* the pid, tid, buffer address, client address and length of the admit.   *)
C8_BorrowRoundTrip ==
    \A i \in Indices :
      (DeliveredLend(i) /\ ~sent[i].diedBefore /\ sent[i].orig # None) =>
        take_waiting_message(srv, i, sent[i].msg.buf).ret
          = Borrowed(sent[i].pid, sent[i].tid, sent[i].msg.buf[1],
                     sent[i].orig[1], sent[i].msg.buf[2])

(* The reply to a delivered read/write lend has returned BorrowedMemory.   *)
C8_Witness ==
    /\ ret.tag = "BorrowedMemory"
    /\ acted.delivered /\ ~acted.diedBefore
    /\ acted.msg.kind = "MutableBorrow"

(* C9: take_waiting_message with an index in range and the buffer recorded *)
(* in the slot returns ForgetMemory(server_addr, len) for a WaitingForget  *)
(* slot, MovedMemory for a WaitingResponse slot whose server address is 0, *)
(* BorrowedMemory for one whose server address is not 0; the slot becomes  *)
(* Empty and the tail moves one step modulo the capacity.                  *)
C9_ReplyResolvesSlot ==
    [][ \A idx \in Indices, buf \in Buffers :
          (TakeWaitingMessage(idx, buf) /\ Awaiting(idx) /\ buf = SlotBuf(queue[idx])) =>
            /\ ret'.tag =
                  IF Tag(queue[idx]) = "WaitingForget" THEN "ForgetMemory"
                  ELSE IF queue[idx][4] = 0 THEN "MovedMemory"
                  ELSE "BorrowedMemory"
            /\ ret'.tag = "ForgetMemory" => ret'.val = <<queue[idx][4], queue[idx][6]>>
            /\ queue'[idx] = Empty
            /\ queue_tail' = Step(queue_tail) ]_vars

(* C10: take_waiting_message with an index at or beyond the capacity       *)
(* returns BadAddress and changes no slot and no cursor.                   *)
C10_IndexOutOfRange ==
    [][ \A idx \in QueueLen .. (QueueLen + 1), buf \in Buffers :
          TakeWaitingMessage(idx, buf) =>
            /\ ret'.tag = "BadAddress"
            /\ UNCHANGED <<queue, queue_head, queue_tail>> ]_vars

(* The value complete_reply is specified to return for a refused call.     *)
Refused(s, tag) == Out(s, Ret("take_waiting_message", tag, << >>, NoMessage))

(* C11: take_waiting_message on a WaitingResponse or WaitingForget slot    *)
(* with a buffer whose address or length differs from the server address   *)
(* or length of the slot returns BadAddress and changes no slot and no     *)
(* cursor; the call with the recorded buffer made after it still empties   *)
(* the slot and moves the tail.                                            *)
C11_MismatchedBufferRefused ==
    \A i \in Indices, buf \in Buffers :
      (Awaiting(i) /\ buf # SlotBuf(queue[i])) =>
        LET o == take_waiting_message(srv, i, buf)
        IN  /\ o = Refused(srv, "BadAddress")
            /\ \A good \in Buffers :
                  good = SlotBuf(queue[i]) =>
                    LET p == take_waiting_message(o.srv, i, good)
                    IN  /\ p.srv.queue[i] = Empty
                        /\ p.srv.queue_tail = Step(queue_tail)

(* A reply with another buffer than the one recorded in the slot of a      *)
(* delivered lend has returned BadAddress, and the slot still awaits.      *)
C11_Witness ==
    /\ ret.op = "take_waiting_message" /\ ret.tag = "BadAddress"
    /\ arg_idx \in Indices
    /\ DeliveredLend(arg_idx)

(* The variants complete_reply returns when it resolves a slot.            *)
ResolvedTags == {"ForgetMemory", "MovedMemory", "BorrowedMemory"}

(* C12: take_waiting_message on a slot in range that is neither            *)
(* WaitingResponse nor WaitingForget (Empty, or a message still to         *)
(* deliver) returns WaitingMessage::None and changes no slot and no        *)
(* cursor; so does the call repeated on the index a reply just resolved.   *)
C12_NonWaitingSlotIsNone ==
    /\ \A i \in Indices, buf \in Buffers :
          ~Awaiting(i) => take_waiting_message(srv, i, buf) = Refused(srv, "WaitingNone")
    /\ (ret.op = "take_waiting_message" /\ ret.tag \in ResolvedTags) =>
          \A buf \in Buffers :
            take_waiting_message(srv, arg_idx, buf) = Refused(srv, "WaitingNone")

(* The reply repeated on the index of a delivered lend that the reply      *)
(* before it resolved has returned WaitingMessage::None.                   *)
C12_Witness ==
    /\ ret.op = "take_waiting_message" /\ ret.tag = "WaitingNone"
    /\ arg_idx \in Indices
    /\ queue[arg_idx] = Empty
    /\ acted.delivered

AwaitingSlot(i) ==
    << (IF Tag(queue[i]) \in TerminatedTags THEN "WaitingForget" ELSE "WaitingResponse"),
       sent[i].pid, sent[i].tid, sent[i].msg.buf[1], unwrap_or_0(sent[i].orig),
       sent[i].msg.buf[2] >>

(* C14: when a lend (terminated or not) is at the tail, take_next_message  *)
(* delivers its message and rewrites that slot in place to WaitingResponse *)
(* (WaitingForget for a terminated lend) with the pid, the tid, the buffer *)
(* address as server address, the client address and the buffer length;    *)
(* the tail, the head and the other slots stay.                            *)
C14_LendRewrittenInPlace ==
    LET i == queue_tail
    IN  Tag(queue[i]) \in (LendTags \cup TerminatedTags) =>
          \A server_idx \in ServerIdxs :
            LET o == take_next_message(srv, server_idx)
            IN  /\ o.ret.tag = "Some"
                /\ o.ret.msg = sent[i].msg
                /\ o.srv = [srv EXCEPT !.queue[i] = AwaitingSlot(i)]

(* take_next_message has delivered a terminated lend: its slot, still at   *)
(* the tail, is WaitingForget.                                             *)
C14_Witness ==
    /\ ret.op = "take_next_message" /\ ret.tag = "Some"
    /\ IsBorrowKind(ret.msg.kind)
    /\ acted.diedBefore
    /\ Tag(queue[queue_tail]) = "WaitingForget"

(* C15: when the slot at the tail is Empty, WaitingResponse or             *)
(* WaitingForget, take_next_message returns None and changes no slot, no   *)
(* cursor and no ready thread, whatever the other slots hold.              *)
C15_TailWaits ==
    (Tag(queue[queue_tail]) = "Empty" \/ Awaiting(queue_tail)) =>
      \A server_idx \in ServerIdxs :
        take_next_message(srv, server_idx)
          = Out(srv, Ret("take_next_message", "None", << >>, NoMessage))

(* take_next_message has returned None at a tail that awaits a reply while *)
(* another slot holds a message to deliver.                                *)
C15_Witness ==
    /\ ret.op = "take_next_message" /\ ret.tag = "None"
    /\ Awaiting(queue_tail)
    /\ \E j \in Indices : Pending(j)

(* C16: discard_messages_for_pid(pid) rewrites every MemoryMessageROLend   *)
(* and MemoryMessageRWLend slot of that pid to its Terminated variant with *)
(* the same fields, so that no such slot of the pid is left; every other   *)
(* slot, the cursors and the ready threads stay.                           *)
C16_DiscardRewritesPendingLends ==
    \A pid \in Pids :
      LET o == discard_messages_for_pid(srv, pid)
      IN  /\ \A i \in Indices :
                o.srv.queue[i] =
                  IF Tag(queue[i]) \in LendTags /\ queue[i][2] = pid
                  THEN [queue[i] EXCEPT ![1] = Tag(queue[i]) \o "Terminated"]
                  ELSE queue[i]
          /\ \A i \in Indices :
                ~(Tag(o.srv.queue[i]) \in LendTags /\ o.srv.queue[i][2] = pid)
          /\ o.srv.queue_head = queue_head
          /\ o.srv.queue_tail = queue_tail
          /\ o.srv.ready_threads = ready_threads

(* discard_messages_for_pid has terminated a lend of one process and left  *)
(* a lend of the other process as it was.                                  *)
C16_Witness ==
    /\ ret.op = "discard_messages_for_pid"
    /\ \E i, j \in Indices :
          /\ Tag(queue[i]) \in TerminatedTags /\ sent[i].diedBefore
          /\ Tag(queue[j]) \in LendTags

(* The cursors of outcome o are in range and each is where it was or one   *)
(* step further modulo the capacity.                                       *)
CursorRule(o) ==
    /\ o.srv.queue_head \in Indices
    /\ o.srv.queue_tail \in Indices
    /\ o.srv.queue_head \in {queue_head, Step(queue_head)}
    /\ o.srv.queue_tail \in {queue_tail, Step(queue_tail)}

(* C17: after every method (queue_message, queue_address,                  *)
(* take_next_message, take_waiting_message, discard_messages_for_pid, the  *)
(* thread methods) 0 <= queue_head < capacity and 0 <= queue_tail <        *)
(* capacity, and a call moves a cursor by one step modulo the capacity or  *)
(* not at all: from capacity - 1 the step leads to 0.                      *)
C17_CursorsInRange ==
    /\ queue_head \in Indices
    /\ queue_tail \in Indices
    /\ \A c \in Calls : CursorRule(queue_message(srv, c.pid, c.tid, c.msg, c.orig))
    /\ \A c \in AddressCalls : CursorRule(queue_address(srv, c.pid, c.tid, c.msg, c.orig))
    /\ \A server_idx \in ServerIdxs : CursorRule(take_next_message(srv, server_idx))
    /\ \A idx \in 0 .. (QueueLen + 1), buf \in Buffers :
          CursorRule(take_waiting_message(srv, idx, buf))
    /\ \A pid \in Pids : CursorRule(discard_messages_for_pid(srv, pid))
    /\ CursorRule(take_available_thread(srv))
    /\ \A tid \in ThreadIds :
          CursorRule(return_available_thread(srv, tid)) /\ CursorRule(park_thread(srv, tid))

(* The admission into the last slot has wrapped the head to 0 while the    *)
(* tail has moved on from 0.                                               *)
C17_Witness ==
    /\ ret.op = "queue_message" /\ ret.tag = "Ok"
    /\ ret.val = <<QueueLen - 1>>
    /\ queue_head = 0
    /\ queue_tail # 0

(* C18: a WaitingResponse or WaitingForget slot has a length other than 0  *)
(* exactly when it records a lend (a delivered MemoryMessageROLend or      *)
(* MemoryMessageRWLend, or queue_address with a Borrow or MutableBorrow);  *)
(* a slot queue_address wrote for a Scalar or a Move has server address 0  *)
(* and length 0.                                                           *)
C18_LengthTellsLend ==
    /\ \A i \in Indices :
          Awaiting(i) =>
            /\ (queue[i][6] # 0) <=> IsBorrowKind(sent[i].msg.kind)
            /\ ~IsBorrowKind(sent[i].msg.kind) => SlotBuf(queue[i]) = <<0, 0>>
    /\ \A c \in AddressCalls :
          LET o == queue_address(srv, c.pid, c.tid, c.msg, c.orig)
          IN  (o.ret.tag = "Ok" /\ ~IsBorrowKind(c.msg.kind)) =>
                SlotBuf(o.srv.queue[o.ret.val[1]]) = <<0, 0>>

(* A slot queue_address wrote for a Move (length 0) stands next to the     *)
(* slot of a delivered lend (length of its buffer).                        *)
C18_Witness ==
    \E i, j \in Indices :
      /\ Awaiting(i) /\ sent[i].msg.kind = "Move" /\ queue[i][6] = 0
      /\ DeliveredLend(j) /\ queue[j][6] = sent[j].msg.buf[2]

(* C19: no call of queue_message, queue_address, take_next_message,        *)
(* take_waiting_message or discard_messages_for_pid panics, whatever the   *)
(* state and the arguments; stated for the calls whose index, if they take *)
(* one, is below the capacity, which includes the reply to a lend admitted *)
(* with no client address.                                                 *)
C19_NoPanic ==
    ~(ret.tag = "Panic" /\ arg_idx # QueueLen)

(* The lowest-numbered thread of a ready set that is not empty.            *)
Lowest(ready) ==
    CHOOSE t \in ThreadIds :
      /\ has_bit(ready, bit(t))
      /\ \A u \in 0 .. (t - 1) : ~has_bit(ready, bit(u))

(* The value take_available_thread is specified to return.                 *)
Taken(tag, val) == Ret("take_available_thread", tag, val, NoMessage)

(* C20: take_available_thread returns None and changes nothing when no     *)
(* thread is ready; otherwise it returns the lowest-numbered ready thread  *)
(* and clears the bit of that thread alone; with the threads 2, 5 and 7    *)
(* ready, four calls in a row return 2, 5, 7 and None.                     *)
C20_LowestThreadFirst ==
    /\ LET o == take_available_thread(srv)
       IN  IF ready_threads = 0
           THEN o = Out(srv, Taken("None", << >>))
           ELSE /\ o.ret = Taken("Some", <<Lowest(ready_threads)>>)
                /\ o.srv = [srv EXCEPT
                              !.ready_threads = ready_threads - bit(Lowest(ready_threads))]
    /\ ready_threads = bit(2) + bit(5) + bit(7) =>
          LET a == take_available_thread(srv)
              b == take_available_thread(a.srv)
              c == take_available_thread(b.srv)
              d == take_available_thread(c.srv)
          IN  <<a.ret, b.ret, c.ret, d.ret>>
                = <<Taken("Some", <<2>>), Taken("Some", <<5>>), Taken("Some", <<7>>),
                    Taken("None", << >>)>>

(* With the threads 2, 5 and 7 ready, take_available_thread has returned   *)
(* 2 and left 5 and 7 ready.                                               *)
C20_Witness ==
    /\ ret = Taken("Some", <<2>>)
    /\ ready_threads = bit(5) + bit(7)

(* What park_thread and return_available_thread are specified to do with  *)
(* thread tid, o being the outcome and op the method.                      *)
ThreadRule(o, op, tid) ==
    IF has_bit(ready_threads, bit(tid))
    THEN o = Out(srv, Ret(op, "Panic", << >>, NoMessage))
    ELSE /\ o.ret = Ret(op, "Unit", << >>, NoMessage)
         /\ has_bit(o.srv.ready_threads, bit(tid))
         /\ \A u \in ThreadIds \ {tid} :
               has_bit(o.srv.ready_threads, bit(u)) <=> has_bit(ready_threads, bit(u))
         /\ o.srv = [srv EXCEPT !.ready_threads = o.srv.ready_threads]

(* C21: park_thread(tid) and return_available_thread(tid) panic when bit   *)
(* tid of ready_threads is set and leave the set as it is; when the bit is *)
(* clear they set it and change no other bit, no slot and no cursor.       *)
C21_ParkAndReturn ==
    \A tid \in ThreadIds :
      /\ ThreadRule(park_thread(srv, tid), "park_thread", tid)
      /\ ThreadRule(return_available_thread(srv, tid), "return_available_thread", tid)

(* park_thread has panicked on a thread that was ready, with other threads *)
(* ready beside it.                                                        *)
C21_Witness ==
    /\ ret = Ret("park_thread", "Panic", << >>, NoMessage)
    /\ has_bit(ready_threads, bit(2)) /\ has_bit(ready_threads, bit(5))

(* C22: the sender of a delivered lend leads back to its slot:             *)
(* take_next_message(server_idx) sets it to (server_idx << 16) | index of  *)
(* the slot, SenderID::from_usize of it yields sidx = server_idx and       *)
(* tidx = that index, and slot tidx of the queue is the WaitingResponse or *)
(* WaitingForget slot of the delivered message.                            *)
C22_SenderLeadsBack ==
    /\ Tag(queue[queue_tail]) \in (LendTags \cup TerminatedTags) =>
          \A server_idx \in ServerIdxs \cup TokenServerIdxs :
            LET o  == take_next_message(srv, server_idx)
                id == from_usize(o.ret.val[1])
            IN  /\ o.ret.val = <<server_idx * 65536 + queue_tail>>
                /\ id = [sidx |-> server_idx, tidx |-> queue_tail]
                /\ o.srv.queue[id.tidx] = AwaitingSlot(queue_tail)
    /\ (ret.op = "take_next_message" /\ ret.tag = "Some" /\ IsBorrowKind(ret.msg.kind)) =>
          LET id == from_usize(ret.val[1])
          IN  /\ id.sidx \in ServerIdxs
              /\ id.tidx \in Indices
              /\ DeliveredLend(id.tidx)
              /\ sent[id.tidx].msg = ret.msg

(* take_next_message has delivered a lend from slot 1 with a sender that   *)
(* from_usize splits into the server index and 1, and slot 1 awaits.       *)
C22_Witness ==
    /\ ret.op = "take_next_message" /\ ret.tag = "Some" /\ IsBorrowKind(ret.msg.kind)
    /\ from_usize(ret.val[1]) = [sidx |-> 5, tidx |-> 1]
    /\ Awaiting(1)

(* Slot i is one of the ring positions from the tail up to, not            *)
(* including, the head: all of them when head = tail and the tail slot is  *)
(* in use, none when head = tail and the tail slot is Empty.               *)
InRing(i) ==
    IF queue_head = queue_tail
    THEN Tag(queue[queue_tail]) # "Empty"
    ELSE (i + QueueLen - queue_tail) % QueueLen
           < (queue_head + QueueLen - queue_tail) % QueueLen

(* C23: the slots in use are exactly the ring positions from queue_tail up *)
(* to, not including, queue_head; so the tail never passes a slot that     *)
(* still holds a message, and ServerQueueFull means every slot is in use.  *)
C23_RingContiguity ==
    \A i \in Indices : (Tag(queue[i]) # "Empty") <=> InRing(i)

(* C24: a message queue_message admitted is delivered by take_next_message *)
(* at most once, and a delivered lend or a queue_address entry yields at   *)
(* most one ForgetMemory, MovedMemory or BorrowedMemory: a delivery is of  *)
(* a message not delivered before, and a reply that resolves a slot finds  *)
(* it awaiting and leaves it Empty, its message gone from the queue.       *)
C24_AtMostOnce ==
    [][ /\ \A server_idx \in ServerIdxs :
             (TakeNextMessage(server_idx) /\ ret'.tag = "Some") =>
               /\ Pending(queue_tail)
               /\ ~sent[queue_tail].delivered
               /\ Tag(queue'[queue_tail]) \in ({"Empty"} \cup WaitingTags)
        /\ \A idx \in 0 .. (QueueLen + 1), buf \in Buffers :
             (TakeWaitingMessage(idx, buf) /\ ret'.tag \in ResolvedTags) =>
               /\ idx \in Indices
               /\ Awaiting(idx)
               /\ queue'[idx] = Empty
               /\ sent'[idx] = NoSent ]_vars

(* take_next_message called again at the slot of a lend it has delivered   *)
(* has returned None, a second lend waiting behind it.                     *)
C24_Witness ==
    /\ ret.op = "take_next_message" /\ ret.tag = "None"
    /\ DeliveredLend(queue_tail)
    /\ \E j \in Indices : Tag(queue[j]) \in LendTags

(* C25: the scan of take_available_thread never reaches its panic: when    *)
(* ready_threads is not 0 it holds a bit of the word, which the scan finds *)
(* before the mask is back at bit 0.                                       *)
C25_ScanFindsThread ==
    /\ ready_threads \in 0 .. (2 ^ WordBits - 1)
    /\ take_available_thread(srv).ret.tag # "Panic"
    /\ ret.op = "take_available_thread" => ret.tag # "Panic"

(* The scan has gone through the whole word and returned the thread of its *)
(* last bit.                                                               *)
C25_Witness ==
    /\ ret = Taken("Some", <<WordBits - 1>>)
    /\ ready_threads = 0

====
